---- MODULE Spec2Model ----
(***************************************************************************)
(* Task auction and coordination engine of the robot swarm coordinator     *)
(* (CoordinatorSupervisor in coordinator_supervisor.py).                   *)
(*                                                                         *)
(* The coordinator is one sequential control loop: every iteration drains  *)
(* the inbound radio queue (bids, completion reports, robot_status), then  *)
(* closes the auctions whose end time has passed, then expires the         *)
(* assigned tasks whose deadline has passed, then tests whether the demo   *)
(* is complete.  Messages are inputs of the handlers: their fields are     *)
(* drawn from small sets.  Amounts are whole tokens, reputation and        *)
(* capability match are hundredths, time is whole seconds.                 *)
(***************************************************************************)
EXTENDS Integers, Sequences, FiniteSets, Bags, TLC

(* ------------------------------ constants ------------------------------ *)

AUCTION_DURATION == 30
TASK_TIMEOUT == 300
TASK_BUDGET == 5
INITIAL_REPUTATION == 90
NUM_DEMO_TASKS == 3
MISSION_BUDGET == 5000
MISSION_TIMEOUT == 600
FirstMissionId == 1

(* ------------------------------- bounds -------------------------------- *)

\* the clock is read at multiples of TimeGrain seconds, up to MaxTime
TimeGrain == 200
MaxTime == 450
\* number of inbound messages the coordinator handles over a run
MaxMessages == 3
\* longest bid list handed to one call of _select_auction_winner
MaxBids == 2
\* number of inbound messages over a run of the loop kept ticking
MaxLiveMessages == 2
\* number of supervisor messages queued at one iteration of the agent's loop
MaxInbox == 1

(* ------------------------------ input sets ----------------------------- *)

TaskIds == 1..NUM_DEMO_TASKS
UnknownTask == NUM_DEMO_TASKS + 1

\* E-puck nodes of the world, registered in self.robots
RobotNames == {"ugv_alpha", "ugv_beta"}
\* a sender on the radio channel whose name is not in self.robots
Stranger == "ugv_x"
Senders == RobotNames \cup {Stranger}

None == "None"
NoTime == -1
NoTask == 0
NoReputation == -1

\* within budget, above budget, far above budget
BidAmounts == {1, TASK_BUDGET + 1, 5 * TASK_BUDGET}
CapabilityMatches == {80}
BidReputations == {90}
EstimatedTimes == {100}
\* reputations a robot can hold after earlier verifications, in hundredths
Reputations == {10, 15, 50, 90, 100}
\* reputation values of a robot_status message, in hundredths: 0.0 and 1.5
StatusReputations == {0, 150}

BidData == [taskId : TaskIds \cup {UnknownTask}, robotId : Senders,
            bidAmount : BidAmounts, capabilityMatch : CapabilityMatches,
            reputation : BidReputations, estimatedTime : EstimatedTimes]

CompletionData == [taskId : TaskIds \cup {UnknownTask}, robotId : Senders,
                   waypointHashes : BOOLEAN, imageHashes : BOOLEAN]

\* any JSON object with these keys can arrive on the radio channel: also a
\* report whose robotId is null (None after json.loads)
ChannelCompletionData == [taskId : TaskIds \cup {UnknownTask}, robotId : Senders \cup {None},
                          waypointHashes : BOOLEAN, imageHashes : BOOLEAN]

\* keys a robot_status message may carry besides robotId; None and
\* NoReputation: key absent
StatusData == [robotId : Senders, status : {None, "idle", "assigned"},
               reputation : {NoReputation}]

\* a robot_status message that also carries a reputation key
ChannelStatusData == [robotId : Senders, status : {None, "idle", "assigned"},
                      reputation : {NoReputation} \cup StatusReputations]

\* outcome of one call on the blockchain client
LedgerResults == {"success", "failure", "raise"}

Times == {t \in 0..MaxTime : t % TimeGrain = 0}

VARIABLES
    tasks,            \* self.tasks: task_id -> Task
    robots,           \* self.robots: name -> robot record
    active_auctions,  \* self.active_auctions: task_id -> auction end time
    emitter,          \* bag of the messages sent through self.emitter
    blockchain_client,\* self.blockchain_client: None or a client
    now,              \* time.time() of the current loop iteration
    handled,          \* number of inbound messages handled so far
    pc,               \* position of run() in its loop body
    selection,        \* arguments and result of one call of _select_auction_winner
    missions,         \* self.missions: mission_id -> Mission
    receiver,         \* packets queued in self.receiver and their dispatch log
    finality_times,   \* len(self.finality_times)
    agent             \* state of the UGVAgent controller of ugv_alpha

vars == <<tasks, robots, active_auctions, emitter, blockchain_client, now, handled, pc,
          selection, missions, receiver, finality_times, agent>>

(* ------------------------------ data model ----------------------------- *)

NewTask(created) ==
    [mission_id |-> FirstMissionId, status |-> "auction_open", budget |-> TASK_BUDGET,
     deadline |-> created + TASK_TIMEOUT, assigned_robot |-> None,
     bids |-> <<>>, start_time |-> NoTime, completion_time |-> NoTime]

\* the demo mission with a budget below the sum of its tasks' budgets
NewMissionSmallBudget(created) ==
    [budget |-> NUM_DEMO_TASKS * TASK_BUDGET - 1, deadline |-> created + MISSION_TIMEOUT,
     tasks |-> [i \in 1..NUM_DEMO_TASKS |-> i], status |-> "active"]

\* the Mission of _create_demo_mission once _create_task has appended its
\* three task ids
NewMission(created) ==
    [budget |-> MISSION_BUDGET, deadline |-> created + MISSION_TIMEOUT,
     tasks |-> [i \in 1..NUM_DEMO_TASKS |-> i], status |-> "active"]

\* self.missions after _create_demo_mission
DemoMissions == [m \in {FirstMissionId} |-> NewMission(0)]

\* an empty receiver queue
NoPackets == [queue |-> <<>>, arrived |-> <<>>, dispatched |-> <<>>]

NewRobot ==
    [status |-> "idle", current_task |-> NoTask, reputation |-> INITIAL_REPUTATION]

AuctionMessage(task_id) == [type |-> "task_auction", taskId |-> task_id, robotId |-> None]
AssignmentMessage(task_id, robot_id) == [type |-> "task_assignment", taskId |-> task_id, robotId |-> robot_id]
TimeoutMessage(task_id) == [type |-> "task_timeout", taskId |-> task_id, robotId |-> None]

Max(a, b) == IF a >= b THEN a ELSE b
Min(a, b) == IF a <= b THEN a ELSE b

(* ------------------------------ the UGV agent -------------------------- *)

\* the controller modelled: robot.getName() of the agent
AgentId == "ugv_alpha"
\* reputation_score of a new agent, in hundredths
AGENT_INITIAL_REPUTATION == 90
\* loop iterations the agent waits after its last proof capture
PROOF_CAPTURE_DELAY == 10

\* _generate_task_waypoints: five waypoints for the scan (task 1) and the
\* reconnaissance (task 3), one for the delivery (task 2); a waypoint is
\* named by its position in the list
TaskWaypoints(task_id) == IF task_id = 2 THEN <<1>> ELSE <<1, 2, 3, 4, 5>>

NewAgent ==
    [robot_id |-> AgentId, current_task |-> NoTask, waypoints |-> <<>>,
     captured_proofs |-> <<>>, current_waypoint_index |-> 0, proof_capture_timer |-> 0,
     reputation_score |-> AGENT_INITIAL_REPUTATION,
     received |-> EmptyBag, sent |-> <<>>]

\* the packets the agent sends: json.dumps of a bid carrying its
\* reputation_score, and of a completion report carrying one hash per
\* captured proof
BidPacket(ag, task_id) ==
    [json |-> TRUE, type |-> "bid", missing |-> None, taskId |-> task_id,
     robotId |-> ag.robot_id, reputation |-> ag.reputation_score, proofs |-> <<>>]
ReportPacket(ag) ==
    [json |-> TRUE, type |-> "task_completion", missing |-> None,
     taskId |-> ag.current_task, robotId |-> ag.robot_id, reputation |-> NoReputation,
     proofs |-> ag.captured_proofs]

\* _handle_task_auction with _should_bid_for_task (the capability match of
\* the demo tasks is above 0.3 and the battery above 20) and send_bid
HandleTaskAuction(ag, message) ==
    IF ag.current_task # NoTask THEN ag
    ELSE [ag EXCEPT !.sent = Append(@, BidPacket(ag, message.taskId))]

\* _handle_task_assignment with _start_task_execution
HandleTaskAssignment(ag, message) ==
    IF message.robotId # ag.robot_id THEN ag
    ELSE [ag EXCEPT !.current_task = message.taskId,
                    !.waypoints = TaskWaypoints(message.taskId),
                    !.captured_proofs = IF TaskWaypoints(message.taskId) = <<>>
                                        THEN @ ELSE <<>>]

\* _handle_task_timeout
HandleTaskTimeout(ag, message) ==
    IF ag.current_task # NoTask /\ ag.current_task = message.taskId
    THEN [ag EXCEPT !.current_task = NoTask, !.waypoints = <<>>]
    ELSE ag

\* receive_messages: every queued message goes to its handler, in order
RECURSIVE ReceiveMessages(_, _)
ReceiveMessages(ag, inbox) ==
    IF inbox = <<>> THEN ag
    ELSE LET message == Head(inbox)
             handled_one ==
                 IF message.type = "task_auction" THEN HandleTaskAuction(ag, message)
                 ELSE IF message.type = "task_assignment" THEN HandleTaskAssignment(ag, message)
                 ELSE HandleTaskTimeout(ag, message)
         IN  ReceiveMessages(handled_one, Tail(inbox))

\* submit_task_completion with _update_reputation(True), and the reset of
\* current_waypoint_index that follows it in run()
SubmitTaskCompletion(ag) ==
    [ag EXCEPT !.sent = Append(@, ReportPacket(ag)),
               !.reputation_score = Min(100, @ + 5),
               !.current_task = NoTask,
               !.waypoints = <<>>,
               !.current_waypoint_index = 0]

\* the "execute current task" part of one iteration of run(); reached is
\* the result of navigate_to_waypoint
ExecuteTask(ag, reached) ==
    IF ag.current_task = NoTask \/ ag.waypoints = <<>> THEN ag
    ELSE IF ag.current_waypoint_index < Len(ag.waypoints)
    THEN IF reached
         THEN [ag EXCEPT !.captured_proofs =
                             Append(@, ag.waypoints[ag.current_waypoint_index + 1]),
                         !.current_waypoint_index = @ + 1,
                         !.proof_capture_timer = PROOF_CAPTURE_DELAY]
         ELSE ag
    ELSE IF ag.proof_capture_timer > 0
    THEN [ag EXCEPT !.proof_capture_timer = @ - 1]
    ELSE SubmitTaskCompletion(ag)

\* one iteration of the loop of run(): the queued messages, then one step
\* of the task; sent holds what this iteration sent
AgentIteration(ag, inbox, reached) ==
    ExecuteTask(ReceiveMessages([ag EXCEPT !.sent = <<>>], inbox), reached)

(* --------------------------- winner selection -------------------------- *)

\* total_score of _select_auction_winner, times ScoreScale(budget):
\*   (budget - bidAmount)/budget * 0.4 + capabilityMatch * 0.3
\*   + reputation * 0.2 + max(0, 1 - estimatedTime/300) * 0.1
ScoreScale(budget) == 10 * 100 * 300 * budget

TotalScore(bid, budget) ==
      4 * (budget - bid.bidAmount) * 100 * 300
    + 3 * bid.capabilityMatch * 300 * budget
    + 2 * bid.reputation * 300 * budget
    + 1 * Max(0, 300 - bid.estimatedTime) * 100 * budget

\* the availability test with the status comparison inverted
StillAvailableInverted(rs, robot_id) ==
    ~(robot_id \in DOMAIN rs /\ rs[robot_id].status = "idle")

\* "if robot_id in self.robots and self.robots[robot_id]['status'] != 'idle': continue"
StillAvailable(rs, robot_id) ==
    ~(robot_id \in DOMAIN rs /\ rs[robot_id].status # "idle")

\* the loop over task.bids from index i, carrying best_score and best_bid
\* (best is <<>> for None, <<bid>> otherwise)
RECURSIVE WinnerLoop(_, _, _, _, _, _)
WinnerLoop(bids, budget, rs, i, best_score, best) ==
    IF i > Len(bids) THEN best
    ELSE IF ~StillAvailable(rs, bids[i].robotId)
         THEN WinnerLoop(bids, budget, rs, i + 1, best_score, best)
    ELSE IF TotalScore(bids[i], budget) > best_score
         THEN WinnerLoop(bids, budget, rs, i + 1, TotalScore(bids[i], budget), <<bids[i]>>)
    ELSE WinnerLoop(bids, budget, rs, i + 1, best_score, best)

\* _select_auction_winner: <<>> for None, <<bid>> for the best bid
SelectAuctionWinner(task, rs) ==
    IF task.bids = <<>> THEN <<>>
    ELSE WinnerLoop(task.bids, task.budget, rs, 1, -ScoreScale(task.budget), <<>>)

(* ------------------------------ _close_auction ------------------------- *)

\* the coordinator state a handler works on
State(ts, rs, em) == [tasks |-> ts, robots |-> rs, emitter |-> em]

\* the robot update without the current_task assignment
AssignRobotNoTask(rs, robot_id, task_id) ==
    IF robot_id \in DOMAIN rs
    THEN [rs EXCEPT ![robot_id].status = "assigned"]
    ELSE rs

\* "Update robot status" in _close_auction
AssignRobot(rs, robot_id, task_id) ==
    IF robot_id \in DOMAIN rs
    THEN [rs EXCEPT ![robot_id].status = "assigned", ![robot_id].current_task = task_id]
    ELSE rs

\* _close_auction that assigns the winner but leaves the auction open
CloseAuctionStaysOpen(st, task_id, t) ==
    LET task == st.tasks[task_id]
        winner == SelectAuctionWinner(task, st.robots)
    IN  IF task.bids = <<>> \/ winner = <<>>
        THEN State([st.tasks EXCEPT ![task_id].status = "failed"], st.robots, st.emitter)
        ELSE State([st.tasks EXCEPT ![task_id].assigned_robot = winner[1].robotId,
                                    ![task_id].start_time = t],
                   AssignRobot(st.robots, winner[1].robotId, task_id),
                   st.emitter (+) SetToBag({AssignmentMessage(task_id, winner[1].robotId)}))

\* _close_auction(task_id) at time t.  The blockchain close_auction call only
\* records a transaction hash and a finality metric; its outcome does not
\* reach the task or robot tables.
CloseAuction(st, task_id, t) ==
    LET task == st.tasks[task_id]
        winner == SelectAuctionWinner(task, st.robots)
    IN  IF task.bids = <<>> \/ winner = <<>>
        THEN State([st.tasks EXCEPT ![task_id].status = "failed"], st.robots, st.emitter)
        ELSE State([st.tasks EXCEPT ![task_id].assigned_robot = winner[1].robotId,
                                    ![task_id].status = "assigned",
                                    ![task_id].start_time = t],
                   AssignRobot(st.robots, winner[1].robotId, task_id),
                   st.emitter (+) SetToBag({AssignmentMessage(task_id, winner[1].robotId)}))

\* arguments of _select_auction_winner: the budget of the demo tasks and the
\* budget 1500 of the mission examples
ScoringBudgets == {TASK_BUDGET, 1500}
ScoringAmounts == {1, 5 * TASK_BUDGET, 1000, 1200}
\* capabilityMatch, reputation (hundredths) and estimatedTime of a bid
Offers == {[capabilityMatch |-> 80, reputation |-> 90, estimatedTime |-> 100],
           [capabilityMatch |-> 60, reputation |-> 50, estimatedTime |-> 150]}
\* time.time() of the loop iteration whose _process_messages received a bid
ReceiptTimes == {0, 1}

\* a bid as _handle_bid appends it, tagged with the time of its receipt
\* (received is not stored by the code: the list order is all it keeps)
ScoringBids ==
    {[taskId |-> 1, robotId |-> robot_id, bidAmount |-> amount,
      capabilityMatch |-> offer.capabilityMatch, reputation |-> offer.reputation,
      estimatedTime |-> offer.estimatedTime, received |-> t] :
        robot_id \in Senders, amount \in ScoringAmounts, offer \in Offers,
        t \in ReceiptTimes}

\* task.bids.append keeps the bids in the order of their receipt
InReceiptOrder(bids) ==
    \A i \in 1..Len(bids), j \in 1..Len(bids) : i < j => bids[i].received <= bids[j].received

BidLists ==
    {bids \in UNION {[1..n -> ScoringBids] : n \in 0..MaxBids} : InReceiptOrder(bids)}

(* -------------------------------- Init --------------------------------- *)

\* no call of _select_auction_winner is under observation
NoSelection == [task |-> NewTask(0), robots |-> [r \in RobotNames |-> NewRobot],
                best_bid |-> <<>>, done |-> FALSE]

\* after __init__: robots registered, blockchain client chosen, demo mission
\* created with its three tasks, each with an open auction
Init ==
    /\ tasks = [t \in TaskIds |-> NewTask(0)]
    /\ robots = [r \in RobotNames |-> NewRobot]
    /\ active_auctions = [t \in TaskIds |-> 0 + AUCTION_DURATION]
    /\ emitter = SetToBag({AuctionMessage(t) : t \in TaskIds})
    /\ blockchain_client \in {None, "client"}
    /\ now = 0
    /\ handled = 0
    /\ pc = "messages"
    /\ selection = NoSelection
    /\ missions = DemoMissions
    /\ receiver = NoPackets
    /\ finality_times = 0
    /\ agent = NewAgent

(* ------------------------------- handlers ------------------------------ *)

\* outcomes the blockchain client can give to one call: without a client
\* the call raises (AttributeError on None), caught like any other exception
CallResults == IF blockchain_client = None THEN {"raise"} ELSE LedgerResults

\* the bid handler without the test of the task's status
HandleBidResultAnyStatus(st, bid_data, t) ==
    IF bid_data.taskId \notin DOMAIN st.tasks THEN st
    ELSE LET recorded == State([st.tasks EXCEPT ![bid_data.taskId].bids = Append(@, bid_data)],
                               st.robots, st.emitter)
         IN  IF Len(recorded.tasks[bid_data.taskId].bids) >= 1
             THEN CloseAuction(recorded, bid_data.taskId, t)
             ELSE recorded

\* _handle_bid: record the bid, place it on the ledger, close the auction
\* once one bid is recorded.  The blockchain place_bid call only adds a
\* transaction hash and a finality metric; whether it succeeds, fails or
\* raises, the handler goes on to the same close.
HandleBidResult(st, bid_data, t) ==
    IF bid_data.taskId \notin DOMAIN st.tasks THEN st
    ELSE IF st.tasks[bid_data.taskId].status # "auction_open" THEN st
    ELSE LET recorded == State([st.tasks EXCEPT ![bid_data.taskId].bids = Append(@, bid_data)],
                               st.robots, st.emitter)
         IN  IF Len(recorded.tasks[bid_data.taskId].bids) >= 1
             THEN CloseAuction(recorded, bid_data.taskId, t)
             ELSE recorded

\* a bid handler that records the bid and leaves the close to the timeout
HandleBidRecordOnly ==
    /\ pc = "messages"
    /\ handled < MaxMessages
    /\ \E bid_data \in BidData :
         tasks' = IF /\ bid_data.taskId \in DOMAIN tasks
                     /\ tasks[bid_data.taskId].status = "auction_open"
                  THEN [tasks EXCEPT ![bid_data.taskId].bids = Append(@, bid_data)]
                  ELSE tasks
    /\ handled' = handled + 1
    /\ UNCHANGED <<agent, missions, receiver, finality_times, selection, robots, emitter, active_auctions, blockchain_client, now, pc>>

\* one bid message handled by _handle_bid
HandleBid ==
    /\ pc = "messages"
    /\ handled < MaxMessages
    /\ \E bid_data \in BidData :
         LET res == HandleBidResult(State(tasks, robots, emitter), bid_data, now)
         IN  /\ tasks' = res.tasks
             /\ robots' = res.robots
             /\ emitter' = res.emitter
    /\ handled' = handled + 1
    /\ UNCHANGED <<agent, missions, receiver, finality_times, selection, active_auctions, blockchain_client, now, pc>>

\* _process_verified_task with the penalty not floored at 0.1
ProcessVerifiedTaskNoFloor(st, task_id, success) ==
    LET robot_id == st.tasks[task_id].assigned_robot
    IN  IF success
        THEN State([st.tasks EXCEPT ![task_id].status = "verified"],
                   IF robot_id \in DOMAIN st.robots
                   THEN [st.robots EXCEPT ![robot_id].reputation = Min(100, @ + 5)]
                   ELSE st.robots,
                   st.emitter)
        ELSE State([st.tasks EXCEPT ![task_id].status = "failed"],
                   IF robot_id \in DOMAIN st.robots
                   THEN [st.robots EXCEPT ![robot_id].reputation = @ - 10]
                   ELSE st.robots,
                   st.emitter)

\* _process_verified_task
ProcessVerifiedTask(st, task_id, success) ==
    LET robot_id == st.tasks[task_id].assigned_robot
    IN  IF success
        THEN State([st.tasks EXCEPT ![task_id].status = "verified"],
                   IF robot_id \in DOMAIN st.robots
                   THEN [st.robots EXCEPT ![robot_id].reputation = Min(100, @ + 5)]
                   ELSE st.robots,
                   st.emitter)
        ELSE State([st.tasks EXCEPT ![task_id].status = "failed"],
                   IF robot_id \in DOMAIN st.robots
                   THEN [st.robots EXCEPT ![robot_id].reputation = Max(10, @ - 10)]
                   ELSE st.robots,
                   st.emitter)

\* _demo_verify_proof: the proof passes when both hash lists are non-empty
DemoVerifyProof(st, task_id, completion_data) ==
    ProcessVerifiedTask(st, task_id,
                        completion_data.waypointHashes /\ completion_data.imageHashes)

\* a submission whose exception handler only reports the error
SubmitProofVerificationNoFallback(st, task_id, completion_data, client, submit_proof) ==
    IF client # None /\ task_id \in DOMAIN st.tasks
    THEN IF submit_proof = "raise"
         THEN st
         ELSE ProcessVerifiedTask(st, task_id, submit_proof = "success")
    ELSE DemoVerifyProof(st, task_id, completion_data)

\* _submit_proof_verification: with a client the result of submit_proof
\* decides; without one, or when the call raises, demo verification decides
SubmitProofVerification(st, task_id, completion_data, client, submit_proof) ==
    IF client # None /\ task_id \in DOMAIN st.tasks
    THEN IF submit_proof = "raise"
         THEN DemoVerifyProof(st, task_id, completion_data)
         ELSE ProcessVerifiedTask(st, task_id, submit_proof = "success")
    ELSE DemoVerifyProof(st, task_id, completion_data)

\* _handle_task_completion (blockchain_config['demo_mode'] is False)
HandleTaskCompletionResult(st, completion_data, client, submit_proof, t) ==
    IF completion_data.taskId \notin DOMAIN st.tasks THEN st
    ELSE IF st.tasks[completion_data.taskId].assigned_robot # completion_data.robotId THEN st
    ELSE SubmitProofVerification(
             State([st.tasks EXCEPT ![completion_data.taskId].status = "completed",
                                    ![completion_data.taskId].completion_time = t],
                   st.robots, st.emitter),
             completion_data.taskId, completion_data, client, submit_proof)

\* one task_completion message drawn from reports
TaskCompletionFrom(reports) ==
    /\ pc = "messages"
    /\ handled < MaxMessages
    /\ \E completion_data \in reports, submit_proof \in CallResults :
         LET res == HandleTaskCompletionResult(State(tasks, robots, emitter), completion_data,
                                               blockchain_client, submit_proof, now)
         IN  /\ tasks' = res.tasks
             /\ robots' = res.robots
             /\ emitter' = res.emitter
    /\ handled' = handled + 1
    /\ UNCHANGED <<agent, missions, receiver, finality_times, selection, active_auctions, blockchain_client, now, pc>>

HandleTaskCompletion == TaskCompletionFrom(CompletionData)

ChannelTaskCompletion == TaskCompletionFrom(ChannelCompletionData)

\* _handle_robot_status: self.robots[robot_id].update(status_data) writes
\* every key the message carries
HandleRobotStatusResult(rs, status_data) ==
    IF status_data.robotId \in DOMAIN rs
    THEN [rs EXCEPT ![status_data.robotId] =
             [@ EXCEPT !.status = IF status_data.status # None
                                  THEN status_data.status ELSE @,
                       !.reputation = IF status_data.reputation # NoReputation
                                      THEN status_data.reputation ELSE @]]
    ELSE rs

\* one robot_status message drawn from statuses
RobotStatusFrom(statuses) ==
    /\ pc = "messages"
    /\ handled < MaxMessages
    /\ \E status_data \in statuses :
         robots' = HandleRobotStatusResult(robots, status_data)
    /\ handled' = handled + 1
    /\ UNCHANGED <<agent, missions, receiver, finality_times, selection, tasks, active_auctions, emitter, blockchain_client, now, pc>>

HandleRobotStatus == RobotStatusFrom(StatusData)

ChannelRobotStatus == RobotStatusFrom(ChannelStatusData)

\* _process_messages returns when the receiver queue is empty
ProcessMessagesDone ==
    /\ pc = "messages"
    /\ pc' = "auction_timeouts"
    /\ UNCHANGED <<agent, missions, receiver, finality_times, selection, tasks, robots, active_auctions, emitter, blockchain_client, now, handled>>

(* ------------------------------ timer scans ---------------------------- *)

\* the second loop of _check_auction_timeouts over expired_auctions, a list
\* in the insertion order of active_auctions, which is ascending task id
RECURSIVE CloseExpired(_, _, _)
CloseExpired(st, expired, t) ==
    IF expired = {} THEN st
    ELSE LET task_id == CHOOSE x \in expired : \A y \in expired : x <= y
         IN  CloseExpired(CloseAuction(st, task_id, t), expired \ {task_id}, t)

ExpiredAuctions(aa, t) == {task_id \in DOMAIN aa : t >= aa[task_id]}

CheckAuctionTimeouts ==
    /\ pc = "auction_timeouts"
    /\ LET expired_auctions == ExpiredAuctions(active_auctions, now)
           res == CloseExpired(State(tasks, robots, emitter), expired_auctions, now)
       IN  /\ tasks' = res.tasks
           /\ robots' = res.robots
           /\ emitter' = res.emitter
           /\ active_auctions' = [task_id \in (DOMAIN active_auctions) \ expired_auctions
                                    |-> active_auctions[task_id]]
    /\ pc' = "task_timeouts"
    /\ UNCHANGED <<agent, missions, receiver, finality_times, selection, blockchain_client, now, handled>>

\* the test of the scan without the status
TimedOutAnyStatus(task, t) == t > task.deadline

\* the test of _check_task_timeouts on one task
TimedOut(task, t) == task.status = "assigned" /\ t > task.deadline

\* a scan that leaves an overdue task assigned
ExpireTaskNever(st, task_id, t) == st

\* one iteration of the loop of _check_task_timeouts
ExpireTask(st, task_id, t) ==
    IF TimedOut(st.tasks[task_id], t)
    THEN LET robot_id == st.tasks[task_id].assigned_robot
         IN  State([st.tasks EXCEPT ![task_id].status = "expired"],
                   IF robot_id \in DOMAIN st.robots
                   THEN [st.robots EXCEPT ![robot_id].status = "idle",
                                          ![robot_id].current_task = NoTask,
                                          ![robot_id].reputation = Max(10, @ - 10)]
                   ELSE st.robots,
                   st.emitter (+) SetToBag({TimeoutMessage(task_id)}))
    ELSE st

RECURSIVE ScanTasks(_, _, _)
ScanTasks(st, ids, t) ==
    IF ids = {} THEN st
    ELSE LET task_id == CHOOSE x \in ids : \A y \in ids : x <= y
         IN  ScanTasks(ExpireTask(st, task_id, t), ids \ {task_id}, t)

CheckTaskTimeouts ==
    /\ pc = "task_timeouts"
    /\ LET res == ScanTasks(State(tasks, robots, emitter), DOMAIN tasks, now)
       IN  /\ tasks' = res.tasks
           /\ robots' = res.robots
           /\ emitter' = res.emitter
    /\ pc' = "demo_complete"
    /\ UNCHANGED <<agent, missions, receiver, finality_times, selection, active_auctions, blockchain_client, now, handled>>

(* ------------------------------ control loop --------------------------- *)

\* _is_demo_complete (the missions dictionary holds the demo mission)
IsDemoComplete(ts) ==
    \A task_id \in DOMAIN ts :
        ts[task_id].status \in {"completed", "verified", "failed", "expired"}

\* the end of one iteration of run(): break when the demo is complete
FinishDemo ==
    /\ pc = "demo_complete"
    /\ IsDemoComplete(tasks)
    /\ pc' = "done"
    /\ UNCHANGED <<agent, missions, receiver, finality_times, selection, tasks, robots, active_auctions, emitter, blockchain_client, now, handled>>

\* otherwise supervisor.step and the next reading of the clock
Step ==
    /\ pc = "demo_complete"
    /\ ~IsDemoComplete(tasks)
    /\ \E t \in Times : t >= now /\ now' = t
    /\ pc' = "messages"
    /\ UNCHANGED <<agent, missions, receiver, finality_times, selection, tasks, robots, active_auctions, emitter, blockchain_client, handled>>

Next ==
    \/ HandleBid
    \/ HandleTaskCompletion
    \/ HandleRobotStatus
    \/ ProcessMessagesDone
    \/ CheckAuctionTimeouts
    \/ CheckTaskTimeouts
    \/ FinishDemo
    \/ Step

Spec == Init /\ [][Next]_vars

\* the coordinator fed only with the messages the agents of this repository
\* send (bid, task_completion): ugv_agent.py never sends robot_status
NextFleet ==
    \/ HandleBid
    \/ HandleTaskCompletion
    \/ ProcessMessagesDone
    \/ CheckAuctionTimeouts
    \/ CheckTaskTimeouts
    \/ FinishDemo
    \/ Step

SpecFleet == Init /\ [][NextFleet]_vars

\* the coordinator fed with any JSON object of the three message types that
\* the radio channel can deliver: _process_messages checks no field
NextChannel ==
    \/ HandleBid
    \/ ChannelTaskCompletion
    \/ ChannelRobotStatus
    \/ ProcessMessagesDone
    \/ CheckAuctionTimeouts
    \/ CheckTaskTimeouts
    \/ FinishDemo
    \/ Step

SpecChannel == Init /\ [][NextChannel]_vars

\* the coordinator from the moment one registered robot, whose reputation
\* earlier verifications have moved, has won a task with the first bid;
\* from there on it is fed with task_completion messages only
InitVerify ==
    /\ \E bid_data \in BidData, reputation \in Reputations :
         /\ bid_data.taskId \in TaskIds
         /\ bid_data.robotId \in RobotNames
         /\ bid_data.bidAmount <= TASK_BUDGET
         /\ LET res == HandleBidResult(
                           State([t \in TaskIds |-> NewTask(0)],
                                 [r \in RobotNames |->
                                     [NewRobot EXCEPT !.reputation = reputation]],
                                 SetToBag({AuctionMessage(t) : t \in TaskIds})),
                           bid_data, 0)
            IN  /\ tasks = res.tasks
                /\ robots = res.robots
                /\ emitter = res.emitter
    /\ active_auctions = [t \in TaskIds |-> 0 + AUCTION_DURATION]
    /\ blockchain_client \in {None, "client"}
    /\ now = 0
    /\ handled = 1
    /\ pc = "messages"
    /\ selection = NoSelection
    /\ missions = DemoMissions
    /\ receiver = NoPackets
    /\ finality_times = 0
    /\ agent = NewAgent

NextVerify ==
    \/ HandleTaskCompletion
    \/ ProcessMessagesDone
    \/ CheckAuctionTimeouts
    \/ CheckTaskTimeouts
    \/ FinishDemo
    \/ Step

SpecVerify == InitVerify /\ [][NextVerify]_vars

(* ------------------- the handlers with their ledger calls -------------- *)

LedgerState(ts, rs, em, ft) == [tasks |-> ts, robots |-> rs, emitter |-> em, finality_times |-> ft]

\* rec with key set to TRUE, as "bid_data['blockchain_tx'] = ..." and
\* "task.auction_close_tx = ..." add a key that was not there
WithKey(rec, key) == [f \in DOMAIN rec \cup {key} |-> IF f = key THEN TRUE ELSE rec[f]]

\* _close_auction with an exception of close_auction not caught: the
\* assignment below the call is not reached
CloseAuctionLedgerUncaught(st, task_id, t, client, close_auction) ==
    LET task == st.tasks[task_id]
        winner == SelectAuctionWinner(task, st.robots)
        closed == client # None /\ close_auction = "success"
    IN  IF task.bids = <<>> \/ winner = <<>>
        THEN [st EXCEPT !.tasks[task_id].status = "failed"]
        ELSE IF client # None /\ close_auction = "raise" THEN st
        ELSE LedgerState(
                 [st.tasks EXCEPT ![task_id] =
                     [(IF closed THEN WithKey(@, "auction_close_tx") ELSE @) EXCEPT
                         !.assigned_robot = winner[1].robotId,
                         !.status = "assigned",
                         !.start_time = t]],
                 AssignRobot(st.robots, winner[1].robotId, task_id),
                 st.emitter (+) SetToBag({AssignmentMessage(task_id, winner[1].robotId)}),
                 st.finality_times + (IF closed THEN 1 ELSE 0))

\* _close_auction with its ledger call: close_auction is called only when a
\* client exists and a winner was found, inside try/except; on success the
\* transaction hash is kept on the task and a finality time is appended
CloseAuctionLedger(st, task_id, t, client, close_auction) ==
    LET task == st.tasks[task_id]
        winner == SelectAuctionWinner(task, st.robots)
        closed == client # None /\ close_auction = "success"
    IN  IF task.bids = <<>> \/ winner = <<>>
        THEN [st EXCEPT !.tasks[task_id].status = "failed"]
        ELSE LedgerState(
                 [st.tasks EXCEPT ![task_id] =
                     [(IF closed THEN WithKey(@, "auction_close_tx") ELSE @) EXCEPT
                         !.assigned_robot = winner[1].robotId,
                         !.status = "assigned",
                         !.start_time = t]],
                 AssignRobot(st.robots, winner[1].robotId, task_id),
                 st.emitter (+) SetToBag({AssignmentMessage(task_id, winner[1].robotId)}),
                 st.finality_times + (IF closed THEN 1 ELSE 0))

\* _handle_bid with its ledger call: place_bid is called inside try/except
\* (without a client the attribute access raises); on success the
\* transaction hash is stored in the recorded bid and a finality time is
\* appended; then the auction is closed
HandleBidLedgerResult(st, bid_data, t, client, place_bid, close_auction) ==
    IF bid_data.taskId \notin DOMAIN st.tasks THEN st
    ELSE IF st.tasks[bid_data.taskId].status # "auction_open" THEN st
    ELSE LET placed == client # None /\ place_bid = "success"
             stored == IF placed THEN WithKey(bid_data, "blockchain_tx") ELSE bid_data
             recorded == LedgerState(
                             [st.tasks EXCEPT ![bid_data.taskId].bids = Append(@, stored)],
                             st.robots, st.emitter,
                             st.finality_times + (IF placed THEN 1 ELSE 0))
         IN  IF Len(recorded.tasks[bid_data.taskId].bids) >= 1
             THEN CloseAuctionLedger(recorded, bid_data.taskId, t, client, close_auction)
             ELSE recorded

\* the bids within budget of one registered robot and of the stranger
LedgerBidData == {bid_data \in BidData : /\ bid_data.robotId \in {"ugv_alpha", Stranger}
                                         /\ bid_data.bidAmount <= TASK_BUDGET}

LedgerBid ==
    /\ pc = "messages"
    /\ handled < MaxMessages
    /\ \E bid_data \in LedgerBidData, place_bid \in CallResults, close_auction \in CallResults :
         LET res == HandleBidLedgerResult(LedgerState(tasks, robots, emitter, finality_times),
                                          bid_data, now, blockchain_client,
                                          place_bid, close_auction)
         IN  /\ tasks' = res.tasks
             /\ robots' = res.robots
             /\ emitter' = res.emitter
             /\ finality_times' = res.finality_times
    /\ handled' = handled + 1
    /\ UNCHANGED <<agent, active_auctions, blockchain_client, now, pc, selection, missions, receiver>>

\* the second loop of _check_auction_timeouts, each close with the outcome
\* close_auction[task_id] of its ledger call
RECURSIVE CloseExpiredLedger(_, _, _, _, _)
CloseExpiredLedger(st, expired, t, client, close_auction) ==
    IF expired = {} THEN st
    ELSE LET task_id == CHOOSE x \in expired : \A y \in expired : x <= y
         IN  CloseExpiredLedger(
                 CloseAuctionLedger(st, task_id, t, client, close_auction[task_id]),
                 expired \ {task_id}, t, client, close_auction)

\* the outcomes of the close_auction calls of one scan: a call is made only
\* for an expired auction that holds bids
CloseOutcomes(ts, expired) ==
    {close_auction \in [TaskIds -> CallResults] :
        \A task_id \in TaskIds :
            (task_id \notin expired \/ ts[task_id].bids = <<>>) => close_auction[task_id] = "raise"}

LedgerAuctionTimeouts ==
    /\ pc = "auction_timeouts"
    /\ \E close_auction \in CloseOutcomes(tasks, ExpiredAuctions(active_auctions, now)) :
         LET expired_auctions == ExpiredAuctions(active_auctions, now)
             res == CloseExpiredLedger(LedgerState(tasks, robots, emitter, finality_times),
                                       expired_auctions, now, blockchain_client, close_auction)
         IN  /\ tasks' = res.tasks
             /\ robots' = res.robots
             /\ emitter' = res.emitter
             /\ finality_times' = res.finality_times
             /\ active_auctions' = [task_id \in (DOMAIN active_auctions) \ expired_auctions
                                       |-> active_auctions[task_id]]
    /\ pc' = "task_timeouts"
    /\ UNCHANGED <<agent, blockchain_client, now, handled, selection, missions, receiver>>

\* the coordinator fed with bids only, the ledger calls of the bid handler
\* and of the auction close taken with every outcome
NextLedger ==
    \/ LedgerBid
    \/ ProcessMessagesDone
    \/ LedgerAuctionTimeouts
    \/ CheckTaskTimeouts
    \/ FinishDemo
    \/ Step

SpecLedger == Init /\ [][NextLedger]_vars

(* ------------------------ the receiver's packet queue ------------------ *)

\* the packets on the radio channel: json tells whether json.loads accepts
\* the text, missing names the key of data that the message lacks; taskId,
\* robotId, the bid's reputation and the report's proofs are those of a
\* well-formed message
BidKeys == {"taskId", "robotId", "bidAmount"}

PacketSenders == {"ugv_alpha", Stranger}

WellFormedPackets ==
    {[json |-> TRUE, type |-> "bid", missing |-> None, taskId |-> task_id,
      robotId |-> robot_id, reputation |-> 90, proofs |-> <<>>] :
        task_id \in {1, 2}, robot_id \in PacketSenders}
    \cup {[json |-> TRUE, type |-> "task_completion", missing |-> None, taskId |-> 1,
          robotId |-> robot_id, reputation |-> NoReputation, proofs |-> TaskWaypoints(1)] :
              robot_id \in PacketSenders}

MalformedPackets ==
    {[json |-> FALSE, type |-> None, missing |-> None, taskId |-> NoTask, robotId |-> None,
      reputation |-> NoReputation, proofs |-> <<>>]}
    \cup {[json |-> TRUE, type |-> "bid", missing |-> key, taskId |-> NoTask,
          robotId |-> None, reputation |-> NoReputation, proofs |-> <<>>] : key \in BidKeys}

\* message['data'] of a well-formed bid and of a well-formed report: the
\* hash lists of a report hold one entry per captured proof
PacketBid(packet) ==
    [taskId |-> packet.taskId, robotId |-> packet.robotId, bidAmount |-> 1,
     capabilityMatch |-> 80, reputation |-> packet.reputation, estimatedTime |-> 100]
PacketReport(packet) ==
    [taskId |-> packet.taskId, robotId |-> packet.robotId,
     waypointHashes |-> packet.proofs # <<>>, imageHashes |-> packet.proofs # <<>>]

Packets == WellFormedPackets \cup MalformedPackets

PacketSeqs(n) == UNION {[1..k -> Packets] : k \in 0..n}

\* receiver.nextPacket(): the head packet is deleted, if there is one
NextPacket(queue) == IF queue = <<>> THEN queue ELSE Tail(queue)

\* the handler that message['type'] selects, applied to message['data']
Dispatch(st, packet, client, submit_proof, t) ==
    IF packet.type = "bid" THEN HandleBidResult(st, PacketBid(packet), t)
    ELSE HandleTaskCompletionResult(st, PacketReport(packet), client, submit_proof, t)

\* one iteration of the loop of _process_messages: json.loads raises before
\* nextPacket and the except clause deletes the packet; a KeyError of the
\* handler is raised after nextPacket and the except clause deletes one more
ProcessPacket ==
    /\ pc = "messages"
    /\ receiver.queue # <<>>
    /\ LET packet == Head(receiver.queue)
       IN  IF ~packet.json
           THEN /\ receiver' = [receiver EXCEPT !.queue = NextPacket(@)]
                /\ UNCHANGED <<tasks, robots, emitter, handled>>
           ELSE IF packet.missing # None
           THEN /\ receiver' = [receiver EXCEPT !.queue = NextPacket(NextPacket(@))]
                /\ UNCHANGED <<tasks, robots, emitter, handled>>
           ELSE /\ receiver' = [receiver EXCEPT !.queue = NextPacket(@),
                                                !.dispatched = Append(@, packet)]
                /\ \E submit_proof \in CallResults :
                     LET res == Dispatch(State(tasks, robots, emitter), packet,
                                         blockchain_client, submit_proof, now)
                     IN  /\ tasks' = res.tasks
                         /\ robots' = res.robots
                         /\ emitter' = res.emitter
                /\ handled' = handled + 1
    /\ UNCHANGED <<agent, missions, finality_times, selection, active_auctions, blockchain_client,
                   now, pc>>

\* the loop of _process_messages ends when getQueueLength() is 0
ReceiverEmpty ==
    /\ pc = "messages"
    /\ receiver.queue = <<>>
    /\ pc' = "auction_timeouts"
    /\ UNCHANGED <<agent, missions, receiver, finality_times, selection, tasks, robots,
                   active_auctions, emitter, blockchain_client, now, handled>>

\* supervisor.step: the clock advances and the packets sent meanwhile are
\* queued in the receiver
StepReceiving ==
    /\ pc = "demo_complete"
    /\ ~IsDemoComplete(tasks)
    /\ \E t \in Times : t >= now /\ now' = t
    /\ \E sent \in PacketSeqs(MaxMessages - Len(receiver.arrived)) :
         receiver' = [receiver EXCEPT !.queue = @ \o sent, !.arrived = @ \o sent]
    /\ pc' = "messages"
    /\ UNCHANGED <<agent, missions, finality_times, selection, tasks, robots, active_auctions,
                   emitter, blockchain_client, handled>>

InitReceiver ==
    /\ Init
    /\ blockchain_client = None

\* the coordinator reading its messages from the receiver's queue
NextReceiver ==
    \/ ProcessPacket
    \/ ReceiverEmpty
    \/ CheckAuctionTimeouts
    \/ CheckTaskTimeouts
    \/ FinishDemo
    \/ StepReceiving

SpecReceiver == InitReceiver /\ [][NextReceiver]_vars

(* --------------------------- the agent taken alone --------------------- *)

\* what the supervisor may send while the agent is in state ag: auctions and
\* timeouts of any task, assignments to another robot, and an assignment to
\* this agent when it holds no task
SupervisorMessages(ag) ==
    {AuctionMessage(task_id) : task_id \in TaskIds}
    \cup {TimeoutMessage(task_id) : task_id \in TaskIds}
    \cup {AssignmentMessage(task_id, "ugv_beta") : task_id \in TaskIds}
    \cup {AssignmentMessage(task_id, ag.robot_id) :
              task_id \in {t \in TaskIds : ag.current_task = NoTask}}

Inboxes(ag) == UNION {[1..k -> SupervisorMessages(ag)] : k \in 0..MaxInbox}

\* one iteration of the loop of run() of the agent
AgentRun ==
    /\ \E inbox \in Inboxes(agent), reached \in BOOLEAN :
         agent' = AgentIteration(agent, inbox, reached)
    /\ UNCHANGED <<tasks, robots, active_auctions, emitter, blockchain_client, now, handled,
                   pc, selection, missions, receiver, finality_times>>

SpecAgent == InitReceiver /\ [][AgentRun]_vars

(* ---------------------- coordinator and agent together ----------------- *)

\* place of a supervisor message in the order of emission: the auctions
\* are sent at creation, and within a tick assignments (message loop,
\* auction timeouts) come before timeouts (deadline scan)
EmissionRank(message) ==
    (IF message.type = "task_auction" THEN 0
     ELSE IF message.type = "task_assignment" THEN 10 ELSE 20) + message.taskId

\* the messages of a bag as the receiver queues them
RECURSIVE Queued(_)
Queued(bag) ==
    IF BagToSet(bag) = {} THEN <<>>
    ELSE LET message == CHOOSE m \in BagToSet(bag) :
                            \A o \in BagToSet(bag) : EmissionRank(m) <= EmissionRank(o)
         IN  <<message>> \o Queued(bag (-) SetToBag({message}))

\* supervisor.step and robot.step: the clock advances, the agent runs one
\* iteration of its loop on the messages the coordinator sent since the
\* last one, and what the agent sends is queued in the coordinator's receiver
SwarmStep ==
    /\ pc = "demo_complete"
    /\ ~IsDemoComplete(tasks)
    /\ \E t \in Times : t >= now /\ now' = t
    /\ \E reached \in BOOLEAN :
         LET ran == AgentIteration(agent, Queued(emitter (-) agent.received), reached)
         IN  /\ agent' = [ran EXCEPT !.received = emitter]
             /\ receiver' = [receiver EXCEPT !.queue = @ \o ran.sent,
                                             !.arrived = @ \o ran.sent]
    /\ pc' = "messages"
    /\ UNCHANGED <<missions, finality_times, selection, tasks, robots, active_auctions,
                   emitter, blockchain_client, handled>>

NextSwarm ==
    \/ ProcessPacket
    \/ ReceiverEmpty
    \/ CheckAuctionTimeouts
    \/ CheckTaskTimeouts
    \/ FinishDemo
    \/ SwarmStep

SpecSwarm == Init /\ [][NextSwarm]_vars

(* --------------------------- the loop kept ticking --------------------- *)

\* the bids within budget of one registered robot and of the stranger, the
\* reports of both on the first task
LiveBids == {bid_data \in BidData : /\ bid_data.robotId \in {"ugv_alpha", Stranger}
                                    /\ bid_data.bidAmount <= TASK_BUDGET}
LiveReports == {completion_data \in CompletionData :
                   /\ completion_data.robotId \in {"ugv_alpha", Stranger}
                   /\ completion_data.taskId = 1
                   /\ completion_data.waypointHashes = completion_data.imageHashes}

LiveBid ==
    /\ pc = "messages"
    /\ handled < MaxLiveMessages
    /\ \E bid_data \in LiveBids :
         LET res == HandleBidResult(State(tasks, robots, emitter), bid_data, now)
         IN  /\ tasks' = res.tasks
             /\ robots' = res.robots
             /\ emitter' = res.emitter
    /\ handled' = handled + 1
    /\ UNCHANGED <<agent, missions, receiver, finality_times, selection, active_auctions,
                   blockchain_client, now, pc>>

LiveReport == handled < MaxLiveMessages /\ TaskCompletionFrom(LiveReports)

NextLive ==
    \/ LiveBid
    \/ LiveReport
    \/ ProcessMessagesDone
    \/ CheckAuctionTimeouts
    \/ CheckTaskTimeouts
    \/ FinishDemo
    \/ Step

\* the loop of run() keeps ticking: every phase of a tick is carried out,
\* the message loop ends because the queue is finite, and the wall clock
\* read by time.time() goes on
SpecLive ==
    /\ InitReceiver
    /\ [][NextLive]_vars
    /\ WF_vars(ProcessMessagesDone)
    /\ WF_vars(CheckAuctionTimeouts)
    /\ WF_vars(CheckTaskTimeouts)
    /\ WF_vars(FinishDemo)
    /\ SF_vars(Step /\ now' > now)

\* _select_auction_winner taken alone: the task's budget and bid list and
\* the status of the registered robots are drawn, then the function is called
InitScoring ==
    /\ tasks = [t \in TaskIds |-> NewTask(0)]
    /\ robots = [r \in RobotNames |-> NewRobot]
    /\ active_auctions = [t \in TaskIds |-> 0 + AUCTION_DURATION]
    /\ emitter = SetToBag({AuctionMessage(t) : t \in TaskIds})
    /\ blockchain_client = None
    /\ now = 0
    /\ handled = 0
    /\ pc = "messages"
    /\ \E budget \in ScoringBudgets, bids \in BidLists,
          status \in [RobotNames -> {"idle", "assigned"}] :
         selection = [task |-> [NewTask(0) EXCEPT !.budget = budget, !.bids = bids],
                      robots |-> [r \in RobotNames |->
                                     [NewRobot EXCEPT !.status = status[r]]],
                      best_bid |-> <<>>, done |-> FALSE]
    /\ missions = DemoMissions
    /\ receiver = NoPackets
    /\ finality_times = 0
    /\ agent = NewAgent

SelectWinner ==
    /\ ~selection.done
    /\ selection' = [selection EXCEPT
                        !.best_bid = SelectAuctionWinner(selection.task, selection.robots),
                        !.done = TRUE]
    /\ UNCHANGED <<agent, tasks, robots, active_auctions, emitter, blockchain_client, now,
                   handled, pc, missions, receiver, finality_times>>

NextScoring == SelectWinner

SpecScoring == InitScoring /\ [][NextScoring]_vars

(* ------------------------------ properties ----------------------------- *)

Terminal == {"verified", "failed", "expired"}

\* number of task_assignment messages sent for task_id
AssignmentsSent(em, task_id) ==
    LET msgs == {m \in BagToSet(em) : m.type = "task_assignment" /\ m.taskId = task_id}
    IN  BagCardinality([m \in msgs |-> em[m]])

\* the bid a step has appended to the bids of task_id
Appended(task_id) ==
    Len(tasks'[task_id].bids) = Len(tasks[task_id].bids) + 1

NewBid(task_id) == tasks'[task_id].bids[Len(tasks'[task_id].bids)]

\* a valid bid: bidder registered and idle, amount positive and within budget
ValidBid(bid, task, rs) ==
    /\ bid.robotId \in DOMAIN rs
    /\ rs[bid.robotId].status = "idle"
    /\ bid.bidAmount > 0
    /\ bid.bidAmount <= task.budget

\* the timeout scan closes the auction of task_id in this step
TimeoutCloses(task_id) ==
    /\ pc = "auction_timeouts"
    /\ task_id \in ExpiredAuctions(active_auctions, now)

\* C1: closing an auction is idempotent: the timeout close of a task whose
\* auction was already closed by its first bid leaves the task's status,
\* assigned_robot and start_time and every robot record as they were, and
\* sends no second task_assignment message.
C1_CloseIdempotent ==
    [][\A task_id \in TaskIds :
         (TimeoutCloses(task_id) /\ tasks[task_id].status # "auction_open")
         => /\ tasks'[task_id].status = tasks[task_id].status
            /\ tasks'[task_id].assigned_robot = tasks[task_id].assigned_robot
            /\ tasks'[task_id].start_time = tasks[task_id].start_time
            /\ robots' = robots
            /\ AssignmentsSent(emitter', task_id) = AssignmentsSent(emitter, task_id)]_vars

\* C2: no agent is the assigned_robot of two distinct tasks that are both in
\* status assigned, registered in the robot table or not.
C2_NoDoubleAssignment ==
    \A t1, t2 \in TaskIds :
        (t1 # t2 /\ tasks[t1].status = "assigned" /\ tasks[t2].status = "assigned")
        => tasks[t1].assigned_robot # tasks[t2].assigned_robot

\* C3: once a task is verified, failed or expired, no step changes its
\* status, assigned_robot or timestamps.
C3_TerminalIsFinal ==
    [][\A task_id \in TaskIds :
         tasks[task_id].status \in Terminal => tasks'[task_id] = tasks[task_id]]_vars

StatusEdges ==
    {<<"auction_open", "assigned">>, <<"auction_open", "failed">>,
     <<"assigned", "completed">>, <<"assigned", "expired">>,
     <<"completed", "verified">>, <<"completed", "failed">>}

\* the status edges one step takes a task through.  A completion report is
\* the only message that changes a task without appending a bid, and its
\* handler sets completed and then the verification result.
EdgesOfStep(task_id) ==
    IF tasks'[task_id] = tasks[task_id] THEN {}
    ELSE IF pc = "messages" /\ tasks'[task_id].bids = tasks[task_id].bids
         THEN {<<tasks[task_id].status, "completed">>, <<"completed", tasks'[task_id].status>>}
    ELSE IF tasks'[task_id].status = tasks[task_id].status THEN {}
    ELSE {<<tasks[task_id].status, tasks'[task_id].status>>}

\* C4: every change of a task's status follows one of the edges
\* auction_open->assigned, auction_open->failed, assigned->completed,
\* assigned->expired, completed->verified, completed->failed.
C4_StatusEdges ==
    [][\A task_id \in TaskIds : EdgesOfStep(task_id) \subseteq StatusEdges]_vars

\* C5: a task enters status assigned at most once (only from auction_open,
\* which is never re-entered), and its assigned_robot, once set, never changes.
C5_AssignedOnce ==
    [][\A task_id \in TaskIds :
         /\ (tasks'[task_id].status = "assigned" /\ tasks[task_id].status # "assigned")
            => tasks[task_id].status = "auction_open"
         /\ AssignmentsSent(emitter', task_id) <= 1
         /\ tasks[task_id].assigned_robot # None
            => tasks'[task_id].assigned_robot = tasks[task_id].assigned_robot]_vars

\* C6: a robot's status is 'assigned' if and only if it is the
\* assigned_robot of exactly one task in status assigned or completed.
C6_AssignedIffHoldsTask ==
    \A r \in DOMAIN robots :
        robots[r].status = "assigned"
        <=> Cardinality({task_id \in TaskIds :
                           /\ tasks[task_id].assigned_robot = r
                           /\ tasks[task_id].status \in {"assigned", "completed"}}) = 1

\* C7: a valid bid (bidder idle, amount positive and within budget) recorded
\* on an open auction makes the close assign exactly that one agent, and the
\* step that sets a task to assigned sets the winner's status to 'assigned'
\* with current_task equal to the task.
C7_ValidBidAssigns ==
    [][\A task_id \in TaskIds :
         /\ (tasks[task_id].status = "auction_open" /\ Appended(task_id)
             /\ ValidBid(NewBid(task_id), tasks[task_id], robots))
            => /\ tasks'[task_id].status = "assigned"
               /\ tasks'[task_id].assigned_robot = NewBid(task_id).robotId
               /\ AssignmentsSent(emitter', task_id) = 1
               /\ CopiesIn(AssignmentMessage(task_id, NewBid(task_id).robotId), emitter') = 1
               /\ \A r \in DOMAIN robots : r # NewBid(task_id).robotId => robots'[r] = robots[r]
         /\ (tasks'[task_id].status = "assigned" /\ tasks[task_id].status # "assigned"
             /\ tasks'[task_id].assigned_robot \in DOMAIN robots)
            => /\ robots'[tasks'[task_id].assigned_robot].status = "assigned"
               /\ robots'[tasks'[task_id].assigned_robot].current_task = task_id]_vars

C7_Witness ==
    \E task_id \in TaskIds :
        /\ tasks[task_id].status = "assigned"
        /\ Len(tasks[task_id].bids) = 1
        /\ tasks[task_id].bids[1].bidAmount <= tasks[task_id].budget
        /\ tasks[task_id].assigned_robot = tasks[task_id].bids[1].robotId
        /\ tasks[task_id].assigned_robot \in DOMAIN robots
        /\ robots[tasks[task_id].assigned_robot].status = "assigned"
        /\ robots[tasks[task_id].assigned_robot].current_task = task_id

\* C8: an open auction that closes with zero valid bids (no bids at the
\* timeout, or a bid from a registered agent that is not idle) leaves the
\* task failed with no assigned robot and no assignment message, and the
\* close changes no robot's status, current_task or reputation.
C8_NoValidBidsFails ==
    [][\A task_id \in TaskIds :
         tasks[task_id].status = "auction_open"
         => /\ (TimeoutCloses(task_id) /\ tasks[task_id].bids = <<>>)
               => /\ tasks'[task_id].status = "failed"
                  /\ tasks'[task_id].assigned_robot = None
                  /\ AssignmentsSent(emitter', task_id) = 0
                  /\ \A r \in DOMAIN robots :
                       /\ robots'[r].reputation = robots[r].reputation
                       /\ robots'[r] # robots[r] => robots'[r].current_task # task_id
            /\ (Appended(task_id) /\ NewBid(task_id).robotId \in DOMAIN robots
                /\ robots[NewBid(task_id).robotId].status # "idle")
               => /\ tasks'[task_id].status = "failed"
                  /\ tasks'[task_id].assigned_robot = None
                  /\ AssignmentsSent(emitter', task_id) = 0
                  /\ robots' = robots]_vars

C8_Witness ==
    /\ \E task_id \in TaskIds :
         /\ tasks[task_id].status = "failed"
         /\ tasks[task_id].bids = <<>>
         /\ tasks[task_id].assigned_robot = None
    /\ \E task_id \in TaskIds :
         /\ tasks[task_id].status = "failed"
         /\ Len(tasks[task_id].bids) = 1
         /\ tasks[task_id].bids[1].bidAmount <= tasks[task_id].budget
         /\ tasks[task_id].bids[1].robotId \in DOMAIN robots
         /\ tasks[task_id].assigned_robot = None

\* C9: a bid whose amount exceeds the task's budget is rejected: it is never
\* appended to the task's bids and the task stays auction_open.
C9_OverBudgetRejected ==
    [][\A task_id \in TaskIds :
         Appended(task_id) => NewBid(task_id).bidAmount <= tasks[task_id].budget]_vars

\* C10: a bid from an agent whose status is not idle is rejected: it is not
\* recorded in the task's bids and the task's status does not change.
C10_BusyBidRejected ==
    [][\A task_id \in TaskIds :
         Appended(task_id)
         => ~(NewBid(task_id).robotId \in DOMAIN robots
              /\ robots[NewBid(task_id).robotId].status # "idle")]_vars

\* the step taken is the handling of one message with outcome res
HandlesTo(res) ==
    /\ pc = "messages"
    /\ handled' = handled + 1
    /\ tasks' = res.tasks
    /\ robots' = res.robots
    /\ emitter' = res.emitter

\* a bid for a task id that does not exist or for a task that is not open
LateBid(bid_data) ==
    \/ bid_data.taskId \notin DOMAIN tasks
    \/ tasks[bid_data.taskId].status # "auction_open"

\* C11: in every reachable state, handling a bid for an unknown task id, or
\* for a task whose status is not auction_open, gives back the state it was
\* given: every task (bids, status, assigned_robot) and every robot record
\* are unchanged and nothing is emitted, so no close is triggered.
C11_LateBidRejected ==
    \A bid_data \in BidData :
        LateBid(bid_data)
        => HandleBidResult(State(tasks, robots, emitter), bid_data, now)
               = State(tasks, robots, emitter)

\* one task was closed by its bid and a further message, which no task
\* accepted as a bid or as a completion, has been handled
C11_Witness ==
    /\ pc = "messages"
    /\ handled >= 2
    /\ Cardinality({task_id \in TaskIds : tasks[task_id].bids # <<>>}) = 1
    /\ \E task_id \in TaskIds : tasks[task_id].status = "assigned"
    /\ \A task_id \in TaskIds : tasks[task_id].completion_time = NoTime

\* a completion report for an unknown task, from another robot than the
\* assigned one, or for a task that has no assigned robot
ForeignReport(completion_data) ==
    \/ completion_data.taskId \notin DOMAIN tasks
    \/ tasks[completion_data.taskId].assigned_robot # completion_data.robotId
    \/ tasks[completion_data.taskId].assigned_robot = None

\* C12: a step that handles a completion report for an unknown task, or one
\* whose robotId differs from the task's assigned_robot, or one for a task
\* with no assigned robot whatever robotId it carries, changes no task
\* (status, completion_time), no robot record and emits nothing.
C12_ForeignReportIgnored ==
    [][\A completion_data \in ChannelCompletionData, submit_proof \in CallResults :
          (ForeignReport(completion_data)
             /\ HandlesTo(HandleTaskCompletionResult(State(tasks, robots, emitter),
                                                     completion_data, blockchain_client,
                                                     submit_proof, now)))
          => UNCHANGED <<tasks, robots, emitter>>]_vars

\* task_id was assigned to an agent, no completion report for it has been
\* processed, its deadline has passed and no scan has expired it yet
Overdue(task_id) ==
    /\ tasks[task_id].assigned_robot # None
    /\ tasks[task_id].completion_time = NoTime
    /\ tasks[task_id].status # "expired"
    /\ now > tasks[task_id].deadline

\* C13: the deadline scan that finds a task assigned to an agent, with no
\* completion report processed and its deadline passed, sets the task to
\* expired, lowers the agent's reputation by 0.10 (not below 0.1) and sets
\* the agent idle with no current task.
C13_DeadlineExpires ==
    [][pc = "task_timeouts"
       => \A task_id \in TaskIds :
            Overdue(task_id)
            => /\ tasks'[task_id].status = "expired"
               /\ LET robot_id == tasks[task_id].assigned_robot
                  IN  robot_id \in DOMAIN robots
                      => /\ robots'[robot_id].status = "idle"
                         /\ robots'[robot_id].current_task = NoTask
                         /\ robots'[robot_id].reputation
                                = Max(10, robots[robot_id].reputation - 10)]_vars

\* the verifier's answer to a report is failure: the ledger's answer when
\* the client gives one, the hash test of demo verification otherwise
VerificationFails(completion_data, submit_proof) ==
    IF blockchain_client # None /\ submit_proof # "raise"
    THEN submit_proof = "failure"
    ELSE ~(completion_data.waypointHashes /\ completion_data.imageHashes)

\* C14: a step that handles a completion report from the assigned robot
\* whose verification returns failure leaves the task failed, lowers the
\* assigned robot's reputation by 0.10 but not below 0.1, changes no other
\* robot's reputation and emits nothing (no payment release follows).
C14_FailedVerification ==
    [][\A completion_data \in CompletionData, submit_proof \in CallResults :
          (~ForeignReport(completion_data)
             /\ VerificationFails(completion_data, submit_proof)
             /\ HandlesTo(HandleTaskCompletionResult(State(tasks, robots, emitter),
                                                     completion_data, blockchain_client,
                                                     submit_proof, now)))
          => /\ tasks'[completion_data.taskId].status = "failed"
             /\ \A robot_id \in DOMAIN robots :
                   robots'[robot_id].reputation =
                       IF robot_id = completion_data.robotId
                       THEN Max(10, robots[robot_id].reputation - 10)
                       ELSE robots[robot_id].reputation
             /\ emitter' = emitter]_vars

\* a failed verification has been processed and the penalty hit the floor
C14_Witness ==
    \E task_id \in TaskIds :
        /\ tasks[task_id].status = "failed"
        /\ tasks[task_id].completion_time # NoTime
        /\ tasks[task_id].assigned_robot \in DOMAIN robots
        /\ robots[tasks[task_id].assigned_robot].reputation = 10

\* C15: a task becomes verified only in a step that handles a completion
\* report of its assigned robot; a report accepted by the handler that
\* carries no waypoint hashes or no image hashes does not leave its task
\* verified, with or without a blockchain client; and a robot's reputation
\* rises only in a step that leaves a task assigned to it verified.
C15_ProofGated ==
    [][/\ \A task_id \in TaskIds :
             (tasks[task_id].status # "verified" /\ tasks'[task_id].status = "verified")
             => /\ pc = "messages"
                /\ tasks[task_id].assigned_robot # None
                /\ tasks'[task_id].completion_time = now
       /\ \A completion_data \in CompletionData, submit_proof \in CallResults :
             (~ForeignReport(completion_data)
                /\ ~(completion_data.waypointHashes /\ completion_data.imageHashes)
                /\ HandlesTo(HandleTaskCompletionResult(State(tasks, robots, emitter),
                                                        completion_data, blockchain_client,
                                                        submit_proof, now)))
             => tasks'[completion_data.taskId].status # "verified"
       /\ \A robot_id \in DOMAIN robots :
             robots'[robot_id].reputation > robots[robot_id].reputation
             => \E task_id \in TaskIds :
                   /\ tasks[task_id].assigned_robot = robot_id
                   /\ tasks'[task_id].status = "verified"]_vars

\* the reputation adjustment that goes with a task's resolution
Adjusted(reputation, status) ==
    IF status = "verified" THEN Min(100, reputation + 5) ELSE Max(10, reputation - 10)

\* C16: a robot's reputation changes only in a step that resolves a task
\* assigned to it, taking the task from a non-terminal status to verified
\* (+0.05), failed (-0.10) or expired (-0.10); a completion report for a
\* task that is already resolved adjusts nothing.
C16_AdjustedOnce ==
    [][\A robot_id \in DOMAIN robots :
          robots'[robot_id].reputation # robots[robot_id].reputation
          => \E task_id \in TaskIds :
                /\ tasks[task_id].assigned_robot = robot_id
                /\ tasks[task_id].status \notin Terminal
                /\ tasks'[task_id].status \in Terminal
                /\ robots'[robot_id].reputation
                       = Adjusted(robots[robot_id].reputation, tasks'[task_id].status)]_vars

\* C17: in every reachable state the reputation the coordinator holds for
\* each robot lies in [0.1, 1.0], whatever verified successes, failed
\* verifications, expirations and robot_status messages came before.
C17_ReputationInRange ==
    \A robot_id \in DOMAIN robots :
        /\ robots[robot_id].reputation >= 10
        /\ robots[robot_id].reputation <= 100

\* the composite score 0.40*(budget-bidAmount)/budget + 0.30*capabilityMatch
\* + 0.20*reputation + 0.10*max(0, 1-estimatedTime/300), times 10*100*300*budget
CompositeScore(bid, budget) ==
      40 * (budget - bid.bidAmount) * 10 * 300
    + 30 * bid.capabilityMatch * 30 * budget
    + 20 * bid.reputation * 30 * budget
    + 10 * Max(0, 300 - bid.estimatedTime) * 10 * budget

\* positions in the bid list of the bids whose bidder is an idle robot
IdleBids ==
    {i \in 1..Len(selection.task.bids) :
        /\ selection.task.bids[i].robotId \in DOMAIN selection.robots
        /\ selection.robots[selection.task.bids[i].robotId].status = "idle"}

\* C18: after a call of winner selection, the bid returned is one of the
\* bids of the task whose bidder is idle and no such bid has a higher
\* composite score, and a bid is returned whenever the task has a bid whose
\* bidder is idle.
C18_BestIdleBidWins ==
    selection.done
    => /\ selection.best_bid # <<>>
          => \E i \in IdleBids :
                /\ selection.task.bids[i] = selection.best_bid[1]
                /\ \A j \in IdleBids :
                      CompositeScore(selection.task.bids[j], selection.task.budget)
                         <= CompositeScore(selection.task.bids[i], selection.task.budget)
       /\ IdleBids # {} => selection.best_bid # <<>>

\* rank of the agent ids in lexicographic order
IdRank == [robot_id \in Senders |->
              IF robot_id = "ugv_alpha" THEN 1 ELSE IF robot_id = "ugv_beta" THEN 2 ELSE 3]

\* bid a precedes bid b: received earlier or, received at the same time,
\* from the agent with the lexicographically smaller id
Precedes(a, b) ==
    \/ a.received < b.received
    \/ a.received = b.received /\ IdRank[a.robotId] <= IdRank[b.robotId]

StorageOrders(bids) ==
    {stored \in {[i \in 1..Len(bids) |-> bids[f[i]]] : f \in Permutations(1..Len(bids))} :
        InReceiptOrder(stored)}

C21_OneBidPerAgent ==
    \A task_id \in TaskIds :
        \A i \in 1..Len(tasks[task_id].bids), j \in 1..Len(tasks[task_id].bids) :
            i # j => tasks[task_id].bids[i].robotId # tasks[task_id].bids[j].robotId

\* all messages of the run have been handled, the first recorded a bid and
\* none of the later ones was recorded as a bid or accepted as a report
C21_Witness ==
    /\ handled = MaxMessages
    /\ \E task_id \in TaskIds :
          /\ Len(tasks[task_id].bids) = 1
          /\ \A other \in TaskIds \ {task_id} : tasks[other].bids = <<>>
    /\ \A task_id \in TaskIds : tasks[task_id].completion_time = NoTime

\* the status a mission has as the aggregate of its tasks
Aggregate(mission) ==
    LET statuses == {tasks[mission.tasks[i]].status : i \in 1..Len(mission.tasks)}
    IN  IF statuses \subseteq {"verified"} THEN "completed"
        ELSE IF statuses \subseteq Terminal /\ statuses \cap {"failed", "expired"} # {}
             THEN "failed"
        ELSE "active"

\* C22: in every reachable state the status of each mission is the aggregate
\* of its tasks: completed iff all its tasks are verified, failed iff a task
\* is failed or expired and all the others are terminal, active otherwise.
C22_MissionAggregate ==
    \A m \in DOMAIN missions :
        missions[m].status = Aggregate(missions[m])

RECURSIVE SumBudgets(_)
SumBudgets(task_ids) ==
    IF task_ids = <<>> THEN 0 ELSE tasks[Head(task_ids)].budget + SumBudgets(Tail(task_ids))

CoreBid(bid) == [f \in (DOMAIN bid) \ {"blockchain_tx"} |-> bid[f]]

\* the task without the ledger's transaction hash of the close
CoreTask(task) ==
    [f \in (DOMAIN task) \ {"auction_close_tx"} |->
        IF f = "bids" THEN [i \in 1..Len(task.bids) |-> CoreBid(task.bids[i])] ELSE task[f]]

\* what bidding and closing leave behind, ledger bookkeeping aside: the
\* recorded bids, status and assigned_robot of every task, the robot
\* records and the messages sent
Outcome(st) == State([task_id \in DOMAIN st.tasks |-> CoreTask(st.tasks[task_id])],
                     st.robots, st.emitter)

\* C24: the outcome of handling a bid, and of closing an auction, is the
\* same whether the ledger's place_bid and close_auction calls succeed,
\* return a failure or raise, and the same as without a ledger client: the
\* same bid is recorded and the same status, assigned_robot, robot records
\* and assignment message result
C24_LedgerIndependent ==
    LET cur == LedgerState(tasks, robots, emitter, finality_times)
    IN  /\ pc = "messages" =>
              \A bid_data \in LedgerBidData, place_bid \in CallResults, close_auction \in CallResults :
                  Outcome(HandleBidLedgerResult(cur, bid_data, now, blockchain_client,
                                                place_bid, close_auction))
                      = Outcome(HandleBidLedgerResult(cur, bid_data, now, None, "raise", "raise"))
        /\ pc = "auction_timeouts" =>
              \A task_id \in TaskIds, close_auction \in CallResults :
                  Outcome(CloseAuctionLedger(cur, task_id, now, blockchain_client, close_auction))
                      = Outcome(CloseAuctionLedger(cur, task_id, now, None, "raise"))

\* a bid was placed on the ledger and its auction closed there, another
\* auction was assigned although its ledger calls did not succeed
C24_Witness ==
    /\ blockchain_client # None
    /\ \E a \in TaskIds, b \in TaskIds :
         /\ tasks[a].status = "assigned"
         /\ "auction_close_tx" \in DOMAIN tasks[a]
         /\ "blockchain_tx" \in DOMAIN tasks[a].bids[1]
         /\ tasks[b].status = "assigned"
         /\ "auction_close_tx" \notin DOMAIN tasks[b]
         /\ "blockchain_tx" \notin DOMAIN tasks[b].bids[1]

\* the completion report of the task was handled in the current tick
ReportedThisTick(task_id) == tasks[task_id].completion_time = now

\* C25: messages are handled before the auction-timeout check and that
\* before the deadline scan, so a task whose completion report was handled
\* in a tick is not expired when the deadline scan of that tick has run
C25_ReportBeatsDeadline ==
    pc \in {"demo_complete", "done"} =>
        \A task_id \in TaskIds :
            ReportedThisTick(task_id) => tasks[task_id].status # "expired"

\* the task_timeout messages sent for the task so far
TimeoutsSent(em, task_id) == CopiesIn(TimeoutMessage(task_id), em)

BecomesExpired(task_id) ==
    tasks[task_id].status # "expired" /\ tasks'[task_id].status = "expired"

WellFormed(packets) == SelectSeq(packets, LAMBDA packet : packet \in WellFormedPackets)

\* C27: every well-formed message of the inbound queue is dispatched to its
\* handler exactly once, also behind malformed ones: the messages
\* dispatched so far, followed by the well-formed ones still queued, are
\* the well-formed messages that arrived
C27_DispatchedOnce ==
    receiver.dispatched \o WellFormed(receiver.queue) = WellFormed(receiver.arrived)

\* C28: the auction of a task is closed in the handler step that records
\* its first bid: every task holds at most one recorded bid and no task is
\* in auction with a non-empty bids list
C28_ClosedByFirstBid ==
    \A task_id \in TaskIds :
        /\ Len(tasks[task_id].bids) <= 1
        /\ tasks[task_id].status = "auction_open" => tasks[task_id].bids = <<>>

\* every task received a bid: each holds that one bid and none is in auction
C28_Witness ==
    \A task_id \in TaskIds :
        Len(tasks[task_id].bids) = 1 /\ tasks[task_id].status # "auction_open"

\* the tasks whose auction is open
OpenAuctions == {task_id \in TaskIds : tasks[task_id].status = "auction_open"}

\* C29: between handler steps the task ids in active_auctions are exactly
\* the tasks in auction: a closed auction has no pending close deadline
C29_ActiveAuctionsAreOpen == DOMAIN active_auctions = OpenAuctions

\* C30: when the loop keeps ticking and time advances, every task ends up
\* verified, failed or expired, whether or not a bid or a completion
\* report ever arrives, and the loop then leaves through the demo-complete
\* check
C30_DemoTerminates ==
    <>(/\ pc = "done"
       /\ \A task_id \in TaskIds : tasks[task_id].status \in {"verified", "failed", "expired"})

\* the loop has ended with one task expired for lack of a report and
\* another failed for lack of a bid
C30_Witness ==
    /\ pc = "done"
    /\ \E a \in TaskIds, b \in TaskIds :
         /\ tasks[a].status = "expired"
         /\ tasks[a].completion_time = NoTime
         /\ tasks[b].status = "failed"
         /\ tasks[b].bids = <<>>

\* what the coordinator's table holds for a robot besides telemetry
Standing(rs) ==
    [robot_id \in DOMAIN rs |-> [status |-> rs[robot_id].status,
                                 current_task |-> rs[robot_id].current_task,
                                 reputation |-> rs[robot_id].reputation]]

\* C31: a robot_status message changes only telemetry of the named robot:
\* whichever such message the coordinator handles next, the status,
\* current_task and reputation of every robot stay as they are (the handler
\* touches no task: it is given the robot table only)
C31_StatusOnlyTelemetry ==
    pc = "messages" =>
        \A status_data \in StatusData :
            Standing(HandleRobotStatusResult(robots, status_data)) = Standing(robots)

\* C32: the assigned_robot of every task is unset or the id of a robot of
\* the coordinator's robot table: no bid of an unregistered sender wins
C32_WinnerRegistered ==
    \A task_id \in TaskIds :
        tasks[task_id].assigned_robot \in {None} \cup DOMAIN robots

\* C36: status completed is transient: the handler that accepts a
\* completion report applies the verification result before it returns, on
\* every path, so between two handler steps no task is completed
C36_CompletedTransient ==
    \A task_id \in TaskIds : tasks[task_id].status # "completed"

\* a report was accepted in this tick while the ledger client exists, and
\* the task carries the verification result
C36_Witness ==
    /\ blockchain_client # None
    /\ \E task_id \in TaskIds :
         /\ tasks[task_id].completion_time = now
         /\ tasks[task_id].status \in {"verified", "failed"}

\* the completion reports the agent sent in its last loop iteration
ReportsSent == SelectSeq(agent.sent, LAMBDA packet : packet.type = "task_completion")

\* C35: for every assignment it accepts the agent visits the waypoints in
\* order from the first and captures one proof at each before it reports
\* completion, also after a task cut short by a timeout, and it reports at
\* most once per assignment: a report carries the proofs of all waypoints
\* of its task in order, and with it the agent gives the task up
C35_AllWaypointsThenReport ==
    /\ Len(ReportsSent) <= 1
    /\ \A i \in 1..Len(ReportsSent) :
         /\ ReportsSent[i].proofs = TaskWaypoints(ReportsSent[i].taskId)
         /\ agent.current_task = NoTask

\* the packets of the agent still queued in the coordinator's receiver
AgentPackets(type) ==
    SelectSeq(receiver.queue,
              LAMBDA packet : packet.type = type /\ packet.robotId = agent.robot_id)

\* C33: the reputation an agent puts in a bid equals the reputation the
\* coordinator holds for it, both copies changing by the same amounts:
\* every bid of the agent queued at the coordinator carries the
\* coordinator's value, and whenever the agent is free to bid (it holds no
\* task and no report of its own is on the way) its reputation_score is the
\* coordinator's value
C33_ReputationCopiesAgree ==
    /\ \A i \in 1..Len(AgentPackets("bid")) :
         AgentPackets("bid")[i].reputation = robots[agent.robot_id].reputation
    /\ (agent.current_task = NoTask /\ AgentPackets("task_completion") = <<>>)
           => agent.reputation_score = robots[agent.robot_id].reputation

\* C34: the agent has no bid outstanding while it executes a task: once
\* the coordinator has assigned it a task, or the agent holds one, no bid
\* of the agent for another task is pending at the coordinator, queued or
\* recorded in an open auction
C34_NoBidWhileExecuting ==
    \A task_id \in TaskIds :
        (\/ agent.current_task = task_id
         \/ (tasks[task_id].status = "assigned"
               /\ tasks[task_id].assigned_robot = agent.robot_id))
        => /\ \A i \in 1..Len(AgentPackets("bid")) :
                 AgentPackets("bid")[i].taskId = task_id
           /\ \A other \in TaskIds \ {task_id} :
                 tasks[other].status = "auction_open" =>
                     \A i \in 1..Len(tasks[other].bids) :
                         tasks[other].bids[i].robotId # agent.robot_id

====
